---------------------------- MODULE Spec2Model ----------------------------
(***************************************************************************)
(* A model of internal/service/memorydb/parameter_group.go: the lifecycle  *)
(* handlers of the MemoryDB parameter group resource (create, update,      *)
(* read, delete), the old/new parameter differencer (ParameterChanges),    *)
(* the batched reset/apply loops, the reset retry and the effective-state  *)
(* lister with its flattening.                                             *)
(*                                                                         *)
(* Conventions.                                                            *)
(*  - A Go *string (or a nil-able interface) is a sequence of length 0 or  *)
(*    1: <<>> is nil, <<x>> points to x.                                   *)
(*  - A parameter name is a sequence of ASCII codes, so that               *)
(*    strings.ToLower is computed, not assumed.                            *)
(*  - A parameter value is a TLA+ string; "" is Go's empty string.         *)
(***************************************************************************)
EXTENDS Integers, Sequences, FiniteSets, TLC

VARIABLES
    pc,           \* position of the running handler
    name,         \* d.Get("name"): the configured group name
    id,           \* d.Id(), "" when unset
    isNew,        \* d.IsNewResource()
    dOld,         \* old value of "parameter" (first result of d.GetChange): <<set>> or nil
    dParameter,   \* value of "parameter" in d (second result of d.GetChange, d.Get): <<set>> or nil
    tagsChanged,  \* d.HasChange("tags_all")
    groups,       \* remote: names of the parameter groups that exist
    remoteParams, \* remote: DescribeParameters listing of the group
    defaultParams,\* remote: DescribeParameters listing of the family's default group
    toRemove,     \* resourceParameterGroupUpdate: parameters still to reset
    toAdd,        \* resourceParameterGroupUpdate: parameters still to modify
    batch,        \* resetParameterGroupParameters: the parameters of the call in flight
    resetErr,     \* resetParameterGroupParameters: <<>> while running, else what it returned
    responses,    \* resource.Retry: outcomes of the attempts made so far by this reset
    elapsed,      \* resource.Retry: seconds since the retry started
    calls,        \* every remote call issued so far, in order, with its outcome
    result        \* the handler's return value: <<>> while running, <<"nil">> or <<error>>

vars == <<pc, name, id, isNew, dOld, dParameter, tagsChanged, groups, remoteParams,
          defaultParams, toRemove, toAdd, batch, resetErr, responses, elapsed, calls, result>>

(***************************************************************************)
(* Bounds of the model.                                                    *)
(***************************************************************************)
MaxDiffNames == 3      \* names the differencer's inputs are drawn from
MaxNames == 21         \* names of the family in the update runs
MinDelay == 12         \* least seconds one failed attempt plus its backoff takes
MaxDelay == 14         \* most seconds one failed attempt plus its backoff takes
MaxKeep == 1           \* names declared both before and after in the update runs
MaxDeletes == 3        \* deletes issued in a row

(***************************************************************************)
(* Program constants.                                                      *)
(***************************************************************************)
maxParams == 20        \* const maxParams = 20
RetryTimeout == 30     \* resource.Retry(30*time.Second, ...)

(***************************************************************************)
(* Pointers and strings.                                                   *)
(***************************************************************************)
Nil == <<>>
Ptr(x) == <<x>>

\* aws.StringValue: the pointed-to string, "" for nil.
StringValue(p) == IF p = Nil THEN "" ELSE p[1]

\* strings.ToLower on a sequence of ASCII codes: 'A'..'Z' move to 'a'..'z'.
ToLower(s) == [i \in 1..Len(s) |-> IF s[i] >= 65 /\ s[i] <= 90 THEN s[i] + 32 ELSE s[i]]

\* The i-th lowercase one-letter name: "a", "b", ...
NameOf(i) == <<96 + i>>

NameIndex(nm) == nm[1] - 96

Names(k) == {NameOf(i) : i \in 1..k}

RECURSIVE SeqOfSet(_)
\* The elements of a set of one-letter names in ascending order.
SeqOfSet(S) ==
    IF S = {} THEN <<>>
    ELSE LET m == CHOOSE x \in S : \A y \in S : x[1] <= y[1]
         IN <<m>> \o SeqOfSet(S \ {m})

Reverse(s) == [i \in 1..Len(s) |-> s[Len(s) + 1 - i]]

Range(s) == {s[i] : i \in 1..Len(s)}

Permutations_(S) ==
    {p \in [1..Cardinality(S) -> S] : \A i, j \in 1..Cardinality(S) : p[i] = p[j] => i = j}

(***************************************************************************)
(* The differencer.                                                        *)
(***************************************************************************)

\* expandParameterNameValue: the ParameterNameValue of a declared {name, value}.
expandParameterNameValue(param) ==
    [ParameterName |-> param.name, ParameterValue |-> param.value]

\* The lookup tables ParameterChanges builds from os.List() / ns.List(): one
\* entry per name; of two declared entries with the same name the one listed
\* last wins, and the listing order (by hash) lets either be last.
ParamMapsOf(S) ==
    LET names == {p.name : p \in S}
        vals(k) == {p.value : p \in {q \in S : q.name = k}}
    IN IF \A k \in names : Cardinality(vals(k)) = 1
       THEN {[k \in names |->
                 expandParameterNameValue([name |-> k, value |-> CHOOSE v \in vals(k) : TRUE])]}
       ELSE {[k \in names |-> expandParameterNameValue([name |-> k, value |-> f[k]])] :
                 f \in {g \in [names -> {p.value : p \in S}] : \A k \in names : g[k] \in vals(k)}}

\* The map sizes whose every iteration order is explored.
PermutedSizes == 0..3

\* The orders in which `for k := range m` may visit the keys K of a Go map:
\* every order for a small map; for a larger one the ascending and the
\* descending order stand for the unspecified order.
MapRangeOrders(K) ==
    IF Cardinality(K) \in PermutedSizes
    THEN Permutations_(K)
    ELSE {SeqOfSet(K), Reverse(SeqOfSet(K))}

\* Remove: key is in old, but not in new.
RemoveList(om, nm, order) ==
    LET keep == SelectSeq(order, LAMBDA k : k \notin DOMAIN nm)
    IN [i \in 1..Len(keep) |-> om[keep[i]]]

\* A differencer that adds new keys only and overlooks changed values.
AddOrUpdateListNewOnly(om, nm, order) ==
    LET keep == SelectSeq(order, LAMBDA k : k \notin DOMAIN om)
    IN [i \in 1..Len(keep) |-> nm[keep[i]]]

\* Add or Update: key is in new, but not in old or has changed value.
AddOrUpdateList(om, nm, order) ==
    LET keep == SelectSeq(order, LAMBDA k :
                    k \notin DOMAIN om \/ nm[k].ParameterValue # om[k].ParameterValue)
    IN [i \in 1..Len(keep) |-> nm[keep[i]]]

\* ParameterChanges(o, n): the pairs <<remove, addOrUpdate>> it may return.
ParameterChanges(o, n) ==
    LET os == IF o = Nil THEN {} ELSE o[1]
        ns == IF n = Nil THEN {} ELSE n[1]
    IN UNION {UNION {{<<RemoveList(om, nm, ro), AddOrUpdateList(om, nm, ao)>> :
                          ro \in MapRangeOrders(DOMAIN om), ao \in MapRangeOrders(DOMAIN nm)} :
                     nm \in ParamMapsOf(ns)} :
              om \in ParamMapsOf(os)}

(***************************************************************************)
(* The remote service, as the handlers see it.                             *)
(***************************************************************************)

\* One entry of the call log.
Call(op, items, res) == [op |-> op, items |-> items, res |-> res]

\* The default listing's value pointer for a name, nil when it lists none.
DefaultPtr(defaults, nm) ==
    IF \E i \in 1..Len(defaults) : defaults[i].Name = nm
    THEN defaults[CHOOSE i \in 1..Len(defaults) : defaults[i].Name = nm].Value
    ELSE Nil

\* A successful ResetParameterGroup: the named parameters return to the
\* family's defaults.
RemoteReset(listing, defaults, names) ==
    [i \in 1..Len(listing) |->
        IF listing[i].Name \in Range(names)
        THEN [listing[i] EXCEPT !.Value = DefaultPtr(defaults, listing[i].Name)]
        ELSE listing[i]]

\* A successful UpdateParameterGroup: the named parameters take the given values.
RemoteUpdate(listing, items) ==
    [i \in 1..Len(listing) |->
        IF \E j \in 1..Len(items) : items[j].ParameterName = listing[i].Name
        THEN [listing[i] EXCEPT !.Value =
                 Ptr(items[CHOOSE j \in 1..Len(items) :
                               items[j].ParameterName = listing[i].Name].ParameterValue)]
        ELSE listing[i]]

(***************************************************************************)
(* resourceParameterGroupCreate.                                           *)
(***************************************************************************)
Create ==
    /\ pc = "create"
    /\ \E res \in {"ok", "error"} :
          /\ calls' = Append(calls, Call("CreateParameterGroup", <<>>, res))
          /\ IF res = "ok"
             THEN /\ groups' = groups \cup {name}
                  /\ id' = name
                  /\ pc' = "update"
                  /\ result' = result
             ELSE /\ result' = <<"error creating">>
                  /\ pc' = "done"
                  /\ UNCHANGED <<groups, id>>
    /\ UNCHANGED <<name, isNew, dOld, dParameter, tagsChanged, remoteParams, defaultParams,
                   toRemove, toAdd, batch, resetErr, responses, elapsed>>

(***************************************************************************)
(* resourceParameterGroupUpdate.                                           *)
(***************************************************************************)

\* The two loops in the other order: apply first, reset afterwards.
LoopPcApplyFirst(tr, ta) ==
    IF Len(ta) > 0 THEN "apply"
    ELSE IF Len(tr) > 0 THEN "reset"
    ELSE IF tagsChanged THEN "tags"
    ELSE "read"

\* Where the update goes once the reset loop's condition is evaluated with
\* tr to remove and ta to add.
LoopPc(tr, ta) ==
    IF Len(tr) > 0 THEN "reset"
    ELSE IF Len(ta) > 0 THEN "apply"
    ELSE IF tagsChanged THEN "tags"
    ELSE "read"

\* An update that goes on with the loops after a failed batch.
AfterBatchGoesOn(failed, tr, ta) ==
    IF Len(tr) > 0 THEN "reset"
    ELSE IF Len(ta) > 0 THEN "apply"
    ELSE IF tagsChanged THEN "tags"
    ELSE "read"

\* Where the update goes after a batch call: `if err != nil { return diag.Errorf(...) }`,
\* else back to the loops.
AfterBatch(failed, tr, ta) == IF failed THEN "done" ELSE LoopPc(tr, ta)

\* paramsToReset, toRemove = toRemove[:maxParams], toRemove[maxParams:]
\* (the whole list and nil when it holds no more than maxParams).
SliceHead(list) ==
    IF Len(list) <= maxParams THEN list ELSE SubSeq(list, 1, maxParams)

\* A slice of the rest that starts one element late.
SliceRestLate(list) ==
    IF Len(list) <= maxParams THEN <<>> ELSE SubSeq(list, maxParams + 2, Len(list))

SliceRest(list) ==
    IF Len(list) <= maxParams THEN <<>> ELSE SubSeq(list, maxParams + 1, Len(list))

\* Entry: d.HasChange("parameter"), d.GetChange and ParameterChanges.
UpdateStart ==
    /\ pc = "update"
    /\ IF dOld # dParameter
       THEN \E ch \in ParameterChanges(dOld, dParameter) :
                /\ toRemove' = ch[1]
                /\ toAdd' = ch[2]
                /\ pc' = LoopPc(ch[1], ch[2])
       ELSE /\ pc' = LoopPc(<<>>, <<>>)
            /\ UNCHANGED <<toRemove, toAdd>>
    /\ UNCHANGED <<name, id, isNew, dOld, dParameter, tagsChanged, groups, remoteParams,
                   defaultParams, batch, resetErr, responses, elapsed, calls, result>>

\* One round of `for len(toRemove) > 0`: slice the head and call
\* resetParameterGroupParameters with it.
ResetBatch ==
    /\ pc = "reset"
    /\ Len(toRemove) > 0
    /\ batch' = SliceHead(toRemove)
    /\ toRemove' = SliceRest(toRemove)
    /\ resetErr' = <<>>
    /\ responses' = <<>>
    /\ elapsed' = 0
    /\ pc' = "retry"
    /\ UNCHANGED <<name, id, isNew, dOld, dParameter, tagsChanged, groups, remoteParams,
                   defaultParams, toAdd, calls, result>>

\* parameterNames of resetParameterGroupParameters.
ParameterNames(parameters) == [i \in 1..Len(parameters) |-> parameters[i].ParameterName]

\* A classification that retries whatever error the call returns.
IsRetryableAnyError(res) == res # "ok"

\* The classification made by the function handed to resource.Retry: only the
\* InvalidParameterGroupStateFault saying " has pending changes" is retried.
IsRetryable(res) == res = "pending"

\* A budget taken to be twice as long.
RetryExpiredLate(t) == t >= 2 * RetryTimeout

\* resource.Retry's budget is used up.
RetryExpired(t) == t >= RetryTimeout

\* One attempt of the retried ResetParameterGroup call, and what
\* resource.Retry does with its outcome.
ResetAttempt ==
    /\ pc = "retry"
    /\ ~RetryExpired(elapsed)
    /\ \E res \in {"ok", "pending", "error"}, dt \in {MinDelay, MaxDelay} :
          /\ calls' = Append(calls, Call("ResetParameterGroup", ParameterNames(batch), res))
          /\ responses' = Append(responses, res)
          /\ IF res = "ok"
             THEN /\ remoteParams' = RemoteReset(remoteParams, defaultParams, ParameterNames(batch))
                  /\ resetErr' = <<"nil">>
                  /\ elapsed' = 0
                  /\ pc' = AfterBatch(FALSE, toRemove, toAdd)
                  /\ result' = result
             ELSE IF ~IsRetryable(res)
             THEN /\ resetErr' = <<res>>
                  /\ elapsed' = 0
                  /\ result' = <<"error resetting">>
                  /\ pc' = AfterBatch(TRUE, toRemove, toAdd)
                  /\ UNCHANGED remoteParams
             ELSE IF RetryExpired(elapsed + dt)
             THEN /\ resetErr' = <<res>>
                  /\ elapsed' = elapsed + dt
                  /\ result' = <<"error resetting">>
                  /\ pc' = AfterBatch(TRUE, toRemove, toAdd)
                  /\ UNCHANGED remoteParams
             ELSE /\ elapsed' = elapsed + dt
                  /\ UNCHANGED <<resetErr, result, pc, remoteParams>>
    /\ UNCHANGED <<name, id, isNew, dOld, dParameter, tagsChanged, groups, defaultParams,
                   toRemove, toAdd, batch>>

\* One round of `for len(toAdd) > 0`: slice the head and call
\* modifyParameterGroupParameters with it, once.
ApplyBatch ==
    /\ pc = "apply"
    /\ Len(toAdd) > 0
    /\ \E res \in {"ok", "error"} :
          /\ calls' = Append(calls, Call("UpdateParameterGroup", SliceHead(toAdd), res))
          /\ IF res = "ok"
             THEN /\ remoteParams' = RemoteUpdate(remoteParams, SliceHead(toAdd))
                  /\ toAdd' = SliceRest(toAdd)
                  /\ pc' = AfterBatch(FALSE, <<>>, SliceRest(toAdd))
                  /\ result' = result
             ELSE /\ toAdd' = SliceRest(toAdd)
                  /\ result' = <<"error modifying">>
                  /\ pc' = AfterBatch(TRUE, <<>>, SliceRest(toAdd))
                  /\ UNCHANGED remoteParams
    /\ UNCHANGED <<name, id, isNew, dOld, dParameter, tagsChanged, groups, defaultParams,
                   toRemove, batch, resetErr, responses, elapsed>>

\* if d.HasChange("tags_all") { UpdateTags(...) }
UpdateTagsStep ==
    /\ pc = "tags"
    /\ \E res \in {"ok", "error"} :
          /\ calls' = Append(calls, Call("UpdateTags", <<>>, res))
          /\ IF res = "ok"
             THEN pc' = "read" /\ result' = result
             ELSE pc' = "done" /\ result' = <<"error updating tags">>
    /\ UNCHANGED <<name, id, isNew, dOld, dParameter, tagsChanged, groups, remoteParams,
                   defaultParams, toRemove, toAdd, batch, resetErr, responses, elapsed>>

(***************************************************************************)
(* resourceParameterGroupRead.                                             *)
(***************************************************************************)

\* defaultValueByName[name]: the value the default listing gives the name (the
\* last entry wins), "" when it lists none.
DefaultValue(defaults, nm) ==
    LET hits == {i \in 1..Len(defaults) : defaults[i].Name = nm}
    IN IF hits = {} THEN ""
       ELSE StringValue(defaults[CHOOSE i \in hits : \A j \in hits : j <= i].Value)

\* createUserDefinedParameterMap: the declared entries with a non-empty name
\* and a non-empty value, by name.
createUserDefinedParameterMap(declared) ==
    LET kept == {p \in declared : p.name # <<>> /\ p.value # ""}
    IN [k \in {p.name : p \in kept} |-> CHOOSE v \in {p.value : p \in {q \in kept : q.name = k}} : TRUE]

\* A filter that keeps only what differs from the default.
IsListedDiffOnly(parameter, defaults, userDefined) ==
    StringValue(parameter.Value) # DefaultValue(defaults, parameter.Name)

\* The filter of listParameterGroupParameters on one parameter.
IsListed(parameter, defaults, userDefined) ==
    \/ StringValue(parameter.Value) # DefaultValue(defaults, parameter.Name)
    \/ parameter.Name \in DOMAIN userDefined

\* listParameterGroupParameters, once both listings are fetched.
listParameterGroupParameters(defaults, current, userDefined) ==
    SelectSeq(current, LAMBDA parameter : IsListed(parameter, defaults, userDefined))

\* A flattening that keeps the names as the remote listing spells them.
flattenParametersAsListed(list) ==
    LET kept == SelectSeq(list, LAMBDA i : i.Value # Nil)
    IN [k \in 1..Len(kept) |->
           [name |-> kept[k].Name, value |-> StringValue(kept[k].Value)]]

\* flattenParameters.
flattenParameters(list) ==
    LET kept == SelectSeq(list, LAMBDA i : i.Value # Nil)
    IN [k \in 1..Len(kept) |->
           [name |-> ToLower(kept[k].Name), value |-> StringValue(kept[k].Value)]]

\* A not-found check that forgets d.IsNewResource().
IsGoneEvenIfNew(new, res) == res = "notfound"

\* if !d.IsNewResource() && tfresource.NotFound(err)
IsGone(new, res) == ~new /\ res = "notfound"

\* FindParameterGroupByName and the not-found handling that follows it.
ReadFind ==
    /\ pc = "read"
    /\ \E res \in {"found", "notfound", "error"} :
          /\ res = "found" => id \in groups
          /\ calls' = Append(calls, Call("FindParameterGroupByName", <<>>, res))
          /\ IF IsGone(isNew, res)
             THEN id' = "" /\ result' = <<"nil">> /\ pc' = "done"
             ELSE IF res # "found"
             THEN id' = id /\ result' = <<"error reading">> /\ pc' = "done"
             ELSE id' = id /\ result' = result /\ pc' = "list"
    /\ UNCHANGED <<name, isNew, dOld, dParameter, tagsChanged, groups, remoteParams,
                   defaultParams, toRemove, toAdd, batch, resetErr, responses, elapsed>>

\* createUserDefinedParameterMap, listParameterGroupParameters (the default
\* listing is fetched first, then the group's), flattenParameters and d.Set.
ReadList ==
    /\ pc = "list"
    /\ \E res \in {"ok", "defaultsError", "currentError"} :
          IF res = "defaultsError"
          THEN /\ calls' = Append(calls, Call("DescribeParameters", <<"default">>, "error"))
               /\ result' = <<"error listing parameters">>
               /\ pc' = "done"
               /\ UNCHANGED dParameter
          ELSE IF res = "currentError"
          THEN /\ calls' = calls \o <<Call("DescribeParameters", <<"default">>, "ok"),
                                      Call("DescribeParameters", <<"group">>, "error")>>
               /\ result' = <<"error listing parameters">>
               /\ pc' = "done"
               /\ UNCHANGED dParameter
          ELSE /\ calls' = calls \o <<Call("DescribeParameters", <<"default">>, "ok"),
                                      Call("DescribeParameters", <<"group">>, "ok")>>
               /\ dParameter' =
                      Ptr(Range(flattenParameters(
                          listParameterGroupParameters(defaultParams, remoteParams,
                              createUserDefinedParameterMap(dParameter[1])))))
               /\ result' = result
               /\ pc' = "listtags"
    /\ UNCHANGED <<name, id, isNew, dOld, tagsChanged, groups, remoteParams,
                   defaultParams, toRemove, toAdd, batch, resetErr, responses, elapsed>>

\* ListTags and the end of the read.
ReadTags ==
    /\ pc = "listtags"
    /\ \E res \in {"ok", "error"} :
          /\ calls' = Append(calls, Call("ListTags", <<>>, res))
          /\ result' = IF res = "ok" THEN <<"nil">> ELSE <<"error listing tags">>
    /\ pc' = "done"
    /\ UNCHANGED <<name, id, isNew, dOld, dParameter, tagsChanged, groups, remoteParams,
                   defaultParams, toRemove, toAdd, batch, resetErr, responses, elapsed>>

(***************************************************************************)
(* resourceParameterGroupDelete.                                           *)
(***************************************************************************)

\* A delete that reports every failure of the remote call, not-found included.
DeleteResultStrict(res) == IF res # "ok" THEN <<"error deleting">> ELSE <<"nil">>

\* What resourceParameterGroupDelete returns for the remote call's outcome.
DeleteResult(res) ==
    IF res = "notfound" THEN <<"nil">>
    ELSE IF res # "ok" THEN <<"error deleting">>
    ELSE <<"nil">>

\* One call of the delete handler; the host may call it again with the same id.
Delete ==
    /\ pc = "delete"
    /\ Len(calls) < MaxDeletes
    /\ \E res \in {"ok", "notfound", "error"} :
          /\ res = "ok" => id \in groups
          /\ res = "notfound" => id \notin groups
          /\ calls' = Append(calls, Call("DeleteParameterGroup", <<id>>, res))
          /\ groups' = IF res = "ok" THEN groups \ {id} ELSE groups
          /\ result' = DeleteResult(res)
    /\ UNCHANGED <<pc, name, id, isNew, dOld, dParameter, tagsChanged, remoteParams,
                   defaultParams, toRemove, toAdd, batch, resetErr, responses, elapsed>>

(***************************************************************************)
(* The differencer alone.                                                  *)
(***************************************************************************)
Diff ==
    /\ pc = "diff"
    /\ \E ch \in ParameterChanges(dOld, dParameter) :
          /\ toRemove' = ch[1]
          /\ toAdd' = ch[2]
    /\ pc' = "done"
    /\ UNCHANGED <<name, id, isNew, dOld, dParameter, tagsChanged, groups, remoteParams,
                   defaultParams, batch, resetErr, responses, elapsed, calls, result>>

(***************************************************************************)
(* Initial states and specifications.                                      *)
(***************************************************************************)
\* The declared set giving every name of K the value val[k].
Declared(K, val) == {[name |-> k, value |-> val[k]] : k \in K}

\* A listing of the names K in ascending order, name k with value pointer val[k].
Listing(K, val) ==
    LET order == SeqOfSet(K)
    IN [i \in 1..Len(order) |-> [Name |-> order[i], Value |-> val[order[i]]]]

\* What no handler has touched yet.
Idle ==
    /\ toRemove = <<>>
    /\ toAdd = <<>>
    /\ batch = <<>>
    /\ resetErr = <<>>
    /\ responses = <<>>
    /\ elapsed = 0
    /\ calls = <<>>
    /\ result = <<>>

\* The differencer's inputs: nil, or any set of {name, value} entries over
\* MaxDiffNames names and two values (names may repeat with different values:
\* the set is hashed on name and value).
DiffValues == {"1", "2"}

DiffInputs ==
    {Nil} \cup {Ptr(S) : S \in SUBSET [name : Names(MaxDiffNames), value : DiffValues]}

InitDiff ==
    /\ pc = "diff"
    /\ dOld \in DiffInputs
    /\ dParameter \in DiffInputs
    /\ name = "pg-a"
    /\ id = "pg-a"
    /\ isNew = FALSE
    /\ tagsChanged = FALSE
    /\ groups = {"pg-a"}
    /\ remoteParams = <<>>
    /\ defaultParams = <<>>
    /\ Idle

NextDiff == Diff

SpecDiff == InitDiff /\ [][NextDiff]_vars

\* The update runs: the family has MaxNames parameters, all with default "0".
\* Before the change the first keep + rem names are declared with value "1";
\* after it the first keep names stay declared (with the same value, a changed
\* value, or alternately), the next rem names are dropped, and add further
\* names are declared with value "2". The remote group holds the old
\* declaration on top of the defaults. A create run starts from nothing
\* declared and no remote group.
KeptValue(scheme, k) ==
    IF scheme = "same" THEN "1"
    ELSE IF scheme = "changed" THEN "2"
    ELSE IF NameIndex(k) % 2 = 1 THEN "1" ELSE "2"

OldDeclared(keep, rem) ==
    Declared(Names(keep + rem), [k \in Names(keep + rem) |-> "1"])

NewDeclared(keep, rem, add, scheme) ==
    Declared(Names(keep), [k \in Names(keep) |-> KeptValue(scheme, k)])
    \cup LET added == Names(keep + rem + add) \ Names(keep + rem)
         IN Declared(added, [k \in added |-> "2"])

FamilyDefaults == Listing(Names(MaxNames), [k \in Names(MaxNames) |-> Ptr("0")])

RemoteHolding(declared) ==
    Listing(Names(MaxNames),
            [k \in Names(MaxNames) |->
                IF \E p \in declared : p.name = k
                THEN Ptr((CHOOSE p \in declared : p.name = k).value)
                ELSE Ptr("0")])

InitUpdate ==
    /\ name = "pg-a"
    /\ tagsChanged \in BOOLEAN
    /\ defaultParams = FamilyDefaults
    /\ \E keep \in 0..MaxKeep, rem \in 0..MaxNames, add \in 0..MaxNames,
          scheme \in {"same", "changed", "mixed"}, create \in BOOLEAN :
          /\ keep + rem + add <= MaxNames
          /\ create => keep = 0 /\ rem = 0
          /\ pc = IF create THEN "create" ELSE "update"
          /\ id = IF create THEN "" ELSE "pg-a"
          /\ isNew = create
          /\ groups = IF create THEN {} ELSE {"pg-a"}
          /\ dOld = Ptr(OldDeclared(keep, rem))
          /\ dParameter = Ptr(NewDeclared(keep, rem, add, scheme))
          /\ remoteParams = RemoteHolding(OldDeclared(keep, rem))
    /\ Idle

NextUpdate ==
    \/ Create
    \/ UpdateStart
    \/ ResetBatch
    \/ ResetAttempt
    \/ ApplyBatch
    \/ UpdateTagsStep
    \/ ReadFind
    \/ ReadList
    \/ ReadTags

SpecUpdate == InitUpdate /\ [][NextUpdate]_vars

\* A refresh: nothing is planned, so the old and the current value of
\* "parameter" are the same declared set; the remote listings are any
\* listings over the names "a", "A" and "b" whose names are unique up to
\* case, with values nil, "" or "1".
ReadValues == {Nil, Ptr(""), Ptr("1")}

ReadNameSets == {K \in SUBSET {<<97>>, <<65>>, <<98>>} : ~({<<97>>, <<65>>} \subseteq K)}

ReadListings == UNION {{Listing(K, val) : val \in [K -> ReadValues]} : K \in ReadNameSets}

ReadDeclared ==
    UNION {{Declared(K, val) : val \in [K -> {"", "1"}]} : K \in SUBSET {<<97>>, <<65>>, <<98>>}}

InitRead ==
    /\ pc = "read"
    /\ name = "pg-a"
    /\ id = "pg-a"
    /\ isNew = FALSE
    /\ tagsChanged = FALSE
    /\ groups \in {{}, {"pg-a"}}
    /\ remoteParams \in ReadListings
    /\ defaultParams \in ReadListings
    /\ \E S \in ReadDeclared : dOld = Ptr(S) /\ dParameter = Ptr(S)
    /\ Idle

NextRead ==
    \/ ReadFind
    \/ ReadList
    \/ ReadTags

SpecRead == InitRead /\ [][NextRead]_vars

\* resetParameterGroupParameters alone: it is called with any non-empty list
\* of distinct parameters, each holding the non-default value "1".
ResetInputs ==
    UNION {{[i \in 1..Len(order) |-> expandParameterNameValue([name |-> order[i], value |-> "1"])] :
               order \in Permutations_(K)} : K \in SUBSET Names(MaxDiffNames) \ {{}}}

InitReset ==
    /\ pc = "retry"
    /\ name = "pg-a"
    /\ id = "pg-a"
    /\ isNew = FALSE
    /\ tagsChanged = FALSE
    /\ groups = {"pg-a"}
    /\ dOld = Ptr({})
    /\ dParameter = Ptr({})
    /\ remoteParams = Listing(Names(MaxDiffNames), [k \in Names(MaxDiffNames) |-> Ptr("1")])
    /\ defaultParams = Listing(Names(MaxDiffNames), [k \in Names(MaxDiffNames) |-> Ptr("0")])
    /\ batch \in ResetInputs
    /\ toRemove = <<>>
    /\ toAdd = <<>>
    /\ resetErr = <<>>
    /\ responses = <<>>
    /\ elapsed = 0
    /\ calls = <<>>
    /\ result = <<>>

NextReset == ResetAttempt

SpecReset == InitReset /\ [][NextReset]_vars

\* resource.Retry blocks its caller and keeps attempting: an attempt that can
\* be made is made.
SpecResetFair == SpecReset /\ WF_vars(ResetAttempt)

\* Deletes of any group name, against any set of existing groups.
DeleteNames == {"pg-a", "pg-b", "pg-c"}

InitDelete ==
    /\ pc = "delete"
    /\ id \in DeleteNames
    /\ name = id
    /\ isNew = FALSE
    /\ tagsChanged = FALSE
    /\ groups \in SUBSET DeleteNames
    /\ dOld = Ptr({})
    /\ dParameter = Ptr({})
    /\ remoteParams = <<>>
    /\ defaultParams = <<>>
    /\ Idle

NextDelete == Delete

SpecDelete == InitDelete /\ [][NextDelete]_vars

(***************************************************************************)
(* Properties.                                                             *)
(***************************************************************************)

\* The declared set behind an interface value: empty for nil.
SetOf(v) == IF v = Nil THEN {} ELSE v[1]

NamesIn(S) == {p.name : p \in S}

NameUnique(S) == \A p, q \in S : p.name = q.name => p = q

\* How many entries of a ParameterNameValue list carry the name k.
CountName(list, k) == Cardinality({i \in 1..Len(list) : list[i].ParameterName = k})

\* C1: for name-unique old and new declared sets O and N (nil counting as
\* empty), ParameterChanges returns in toReset exactly the names of O that N
\* lacks, each once, and in toApply exactly the names of N that O lacks or
\* gives another value, each once and with N's value; no name is in both,
\* a name with the same value in O and N is in neither, and O = N gives two
\* empty lists.
C1_DiffPartitions ==
    (pc = "done" /\ NameUnique(SetOf(dOld)) /\ NameUnique(SetOf(dParameter))) =>
        LET O == SetOf(dOld)
            N == SetOf(dParameter)
        IN /\ \A k \in Names(MaxDiffNames) :
                 /\ CountName(toRemove, k) =
                        IF k \in NamesIn(O) \ NamesIn(N) THEN 1 ELSE 0
                 /\ CountName(toAdd, k) =
                        IF \E q \in N : q.name = k /\ q \notin O THEN 1 ELSE 0
                 /\ ~(CountName(toRemove, k) > 0 /\ CountName(toAdd, k) > 0)
                 /\ (\E q \in O \cap N : q.name = k) =>
                        CountName(toRemove, k) = 0 /\ CountName(toAdd, k) = 0
           /\ \A i \in 1..Len(toAdd) :
                 [name |-> toAdd[i].ParameterName, value |-> toAdd[i].ParameterValue] \in N
           /\ O = N => toRemove = <<>> /\ toAdd = <<>>

\* C1's case: a name dropped, a name added, a name whose value changed and a
\* name left as it was, all in one call.
C1_Witness ==
    /\ pc = "done"
    /\ dOld = Ptr({[name |-> NameOf(1), value |-> "1"], [name |-> NameOf(2), value |-> "1"],
                   [name |-> NameOf(3), value |-> "2"]})
    /\ dParameter = Ptr({[name |-> NameOf(2), value |-> "2"], [name |-> NameOf(3), value |-> "2"]})
    /\ Len(toRemove) = 1
    /\ Len(toAdd) = 1

\* The calls of one operation in the log, in order.
CallsOf(op) == SelectSeq(calls, LAMBDA c : c.op = op)

RECURSIVE Concat(_)
\* The items of a list of calls, batch after batch.
Concat(cs) == IF cs = <<>> THEN <<>> ELSE Head(cs).items \o Concat(Tail(cs))

AllOk == \A i \in 1..Len(calls) : calls[i].res \in {"ok", "found"}

\* ceil(L / maxParams)
Batches(L) == (L + maxParams - 1) \div maxParams

\* Both loops of the update are over and "parameter" is still as planned.
LoopsOver == pc \in {"tags", "read", "list"}

\* C2: when every remote call of the update succeeds, the list to reset (of
\* length L) went out in exactly ceil(L/20) ResetParameterGroup calls and the
\* list to apply (of length L') in exactly ceil(L'/20) UpdateParameterGroup
\* calls, the batches concatenated are the original lists, and every batch
\* call ever issued carries between 1 and 20 items.
C2_Batching ==
    /\ \A i \in 1..Len(calls) :
          calls[i].op \in {"ResetParameterGroup", "UpdateParameterGroup"} =>
              Len(calls[i].items) >= 1 /\ Len(calls[i].items) <= 20
    /\ (LoopsOver /\ AllOk) =>
          \E ch \in ParameterChanges(dOld, dParameter) :
              /\ Concat(CallsOf("ResetParameterGroup")) = ParameterNames(ch[1])
              /\ Concat(CallsOf("UpdateParameterGroup")) = ch[2]
              /\ Len(CallsOf("ResetParameterGroup")) = Batches(Len(ch[1]))
              /\ Len(CallsOf("UpdateParameterGroup")) = Batches(Len(ch[2]))

\* C2's case: 21 parameters to reset went out as a batch of 20 and a batch of 1.
C2_Witness ==
    /\ LoopsOver
    /\ AllOk
    /\ Len(CallsOf("ResetParameterGroup")) = 2
    /\ Len(CallsOf("ResetParameterGroup")[1].items) = 20
    /\ Len(CallsOf("ResetParameterGroup")[2].items) >= 1

\* The value pointer the remote group holds for a name.
RemoteValue(nm) == remoteParams[CHOOSE i \in 1..Len(remoteParams) : remoteParams[i].Name = nm].Value

BatchOps == {"ResetParameterGroup", "UpdateParameterGroup"}

BatchFailed == result \in {<<"error resetting">>, <<"error modifying">>}

\* C5: a batch call that fails unrecoverably (a reset answered with another
\* error than the pending-changes conflict, a reset whose retries ran out, an
\* apply that failed once) ends the update with an error at once: it is the
\* last remote call, so no later batch, tag update, read or compensating call
\* follows, and what the batches before it did to the remote group stays.
C5_FailFast ==
    /\ \A i \in 1..Len(calls) :
          (calls[i].op \in BatchOps /\ calls[i].res = "error") =>
              i = Len(calls) /\ pc = "done" /\ BatchFailed
    /\ resetErr = <<"pending">> =>
          /\ pc = "done"
          /\ result = <<"error resetting">>
          /\ calls[Len(calls)].op = "ResetParameterGroup"
          /\ calls[Len(calls)].res = "pending"
    /\ BatchFailed =>
          /\ pc = "done"
          /\ \A i \in 1..Len(calls) : calls[i].op \in BatchOps \cup {"CreateParameterGroup"}
          /\ calls[Len(calls)].op \in BatchOps /\ calls[Len(calls)].res # "ok"
          /\ \A i \in 1..Len(calls) :
                /\ (calls[i].op = "ResetParameterGroup" /\ calls[i].res = "ok") =>
                       \A j \in 1..Len(calls[i].items) :
                           RemoteValue(calls[i].items[j]) = DefaultPtr(defaultParams, calls[i].items[j])
                /\ (calls[i].op = "UpdateParameterGroup" /\ calls[i].res = "ok") =>
                       \A j \in 1..Len(calls[i].items) :
                           RemoteValue(calls[i].items[j].ParameterName) =
                               Ptr(calls[i].items[j].ParameterValue)

\* C5's case: an apply batch failed after a reset batch had succeeded.
C5_Witness ==
    /\ result = <<"error modifying">>
    /\ \E i \in 1..Len(calls) : calls[i].op = "ResetParameterGroup" /\ calls[i].res = "ok"
    /\ \E k \in NamesIn(dOld[1]) \ NamesIn(dParameter[1]) : RemoteValue(k) = Ptr("0")

\* C6: when the group lookup of a read reports not-found, the read makes no
\* further remote call; for a resource not created in this cycle it clears
\* the id and returns no error, for a freshly created one it returns an error
\* and leaves the id.
C6_ReadNotFound ==
    \A i \in 1..Len(calls) :
        (calls[i].op = "FindParameterGroupByName" /\ calls[i].res = "notfound") =>
            /\ i = Len(calls)
            /\ pc = "done"
            /\ IF isNew
               THEN result = <<"error reading">> /\ id = name
               ELSE result = <<"nil">> /\ id = ""

\* C6's case: a read at the end of an update found the group gone.
C6_Witness ==
    /\ calls # <<>>
    /\ calls[Len(calls)].op = "FindParameterGroupByName"
    /\ calls[Len(calls)].res = "notfound"
    /\ ~isNew
    /\ id = ""

\* C10: with the remote group holding exactly the old declaration O on top of
\* the defaults and every call succeeding, every reset batch goes out before
\* any apply batch, no call names a parameter outside O and N, and once both
\* loops are over the remote group holds N's value for every name of N, the
\* default for every name of O that N lacks, and what it held for the rest.
C10_Converges ==
    /\ \A i, j \in 1..Len(calls) :
          (i < j /\ calls[i].op = "UpdateParameterGroup") => calls[j].op # "ResetParameterGroup"
    /\ (LoopsOver /\ AllOk) =>
          LET O == dOld[1]
              N == dParameter[1]
          IN /\ \A k \in Names(MaxNames) :
                   RemoteValue(k) =
                       IF k \in NamesIn(N) THEN Ptr((CHOOSE q \in N : q.name = k).value)
                       ELSE DefaultPtr(defaultParams, k)
             /\ \A i \in 1..Len(calls) :
                   /\ calls[i].op = "ResetParameterGroup" =>
                          Range(calls[i].items) \subseteq NamesIn(O) \ NamesIn(N)
                   /\ calls[i].op = "UpdateParameterGroup" =>
                          {c.ParameterName : c \in Range(calls[i].items)} \subseteq NamesIn(N)

\* C10's case: an update that reset a dropped name and applied a changed and
\* an added one has finished its loops.
C10_Witness ==
    /\ LoopsOver
    /\ AllOk
    /\ CallsOf("ResetParameterGroup") # <<>>
    /\ CallsOf("UpdateParameterGroup") # <<>>
    /\ \E q \in dParameter[1] : q.name \in NamesIn(dOld[1]) /\ q \notin dOld[1]
    /\ \E q \in dParameter[1] : q.name \notin NamesIn(dOld[1])

\* The name is the lowercase spelling of the listed name.
IsLowerOf(lower, listed) ==
    /\ Len(lower) = Len(listed)
    /\ \A j \in 1..Len(listed) :
          /\ lower[j] < 65 \/ lower[j] > 90
          /\ lower[j] = listed[j] \/ (listed[j] >= 65 /\ listed[j] <= 90 /\ lower[j] = listed[j] + 32)

\* The read has stored an entry for the listed parameter P.
InState(P) == \E e \in dParameter[1] : IsLowerOf(e.name, P.Name)

\* The value the default listing gives P's name, "" when it gives none.
DefaultOf(P) ==
    IF \E i \in 1..Len(defaultParams) : defaultParams[i].Name = P.Name
    THEN LET d == defaultParams[CHOOSE i \in 1..Len(defaultParams) : defaultParams[i].Name = P.Name].Value
         IN IF d = <<>> THEN "" ELSE d[1]
    ELSE ""

CurrentOf(P) == IF P.Value = <<>> THEN "" ELSE P.Value[1]

\* The read has listed, flattened and stored the parameters; dOld still holds
\* what was declared when it began.
Listed == pc = "listtags"

\* C3 as stated: a listed parameter is in the stored set exactly when its
\* value differs from the default or its name is declared by the user.
C3_AsStated ==
    Listed =>
        \A i \in 1..Len(remoteParams) :
            LET P == remoteParams[i]
            IN InState(P) <=> (CurrentOf(P) # DefaultOf(P) \/ P.Name \in NamesIn(dOld[1]))

\* C3, amended: a listed parameter with a value is in the stored set exactly
\* when its value differs from the default (none counting as "") or its name,
\* spelled as listed, is declared by the user with a non-empty value; a listed
\* parameter without a value is never stored.
C3_EffectiveSet ==
    Listed =>
        \A i \in 1..Len(remoteParams) :
            LET P == remoteParams[i]
            IN IF P.Value = <<>>
               THEN ~InState(P)
               ELSE InState(P) <=>
                        \/ CurrentOf(P) # DefaultOf(P)
                        \/ \E q \in dOld[1] : q.name = P.Name /\ q.value # ""

\* C3's case: a parameter whose value equals the default is stored because
\* the user declares it, next to one that is not declared and not stored.
C3_Witness ==
    /\ Listed
    /\ \E i, j \in 1..Len(remoteParams) :
          /\ remoteParams[i].Value = Ptr("1")
          /\ DefaultOf(remoteParams[i]) = "1"
          /\ remoteParams[i].Name \in NamesIn(dOld[1])
          /\ InState(remoteParams[i])
          /\ remoteParams[j].Value = Ptr("1")
          /\ DefaultOf(remoteParams[j]) = "1"
          /\ ~InState(remoteParams[j])

\* C9: every stored name is the lowercase spelling of a listed parameter's
\* name and carries that parameter's value unchanged; a listed parameter
\* without a value is stored under no spelling, whether it differs from the
\* default or is declared; every other parameter that passed the filter is
\* stored, lowercased, with its value.
C9_Flattened ==
    Listed =>
        /\ \A e \in dParameter[1] :
              \E i \in 1..Len(remoteParams) :
                  /\ IsLowerOf(e.name, remoteParams[i].Name)
                  /\ remoteParams[i].Value = <<e.value>>
        /\ \A i \in 1..Len(remoteParams) :
              LET P == remoteParams[i]
                  passed == \/ CurrentOf(P) # DefaultOf(P)
                            \/ \E q \in dOld[1] : q.name = P.Name /\ q.value # ""
              IN /\ P.Value = <<>> => ~InState(P)
                 /\ (P.Value # <<>> /\ passed) =>
                        \E e \in dParameter[1] : IsLowerOf(e.name, P.Name) /\ <<e.value>> = P.Value

\* C9's case: a listed "A" is stored as "a", and a declared parameter without
\* a value, whose default is "1", is dropped.
C9_Witness ==
    /\ Listed
    /\ \E i, j \in 1..Len(remoteParams) :
          /\ remoteParams[i].Name = <<65>>
          /\ [name |-> <<97>>, value |-> "1"] \in dParameter[1]
          /\ remoteParams[j].Value = <<>>
          /\ DefaultOf(remoteParams[j]) = "1"
          /\ remoteParams[j].Name \in NamesIn(dOld[1])
          /\ ~InState(remoteParams[j])

\* The attempts the reset has made: its ResetParameterGroup calls.
Attempts == Len(CallsOf("ResetParameterGroup"))

\* C4: a reset whose call is answered with the pending-changes conflict K
\* times and then succeeds returns success after exactly K + 1 attempts; one
\* whose first attempt fails with another error makes exactly that attempt
\* and returns its error; and only a conflict is ever followed by another
\* attempt.
C4_RetryCount ==
    LET n == Len(responses)
    IN /\ \A i \in 1..n : i < n => responses[i] = "pending"
       /\ (n >= 1 /\ responses[n] = "ok") =>
              resetErr = <<"nil">> /\ Attempts = n /\ pc # "retry"
       /\ (n >= 1 /\ responses[1] = "error") =>
              n = 1 /\ Attempts = 1 /\ resetErr = <<"error">> /\ pc # "retry"

\* C4's case: two conflicts, then success on the third attempt.
C4_Witness ==
    /\ responses = <<"pending", "pending", "ok">>
    /\ Attempts = 3
    /\ resetErr = <<"nil">>

\* The reset has returned in one of its three ways.
ResetOutcome ==
    LET n == Len(responses)
    IN /\ pc # "retry"
       /\ n >= 1
       /\ \/ resetErr = <<"nil">> /\ responses[n] = "ok" /\ calls[Len(calls)].res = "ok"
          \/ resetErr = <<"error">> /\ responses[n] = "error"
          \/ /\ resetErr = <<"pending">>
             /\ elapsed >= RetryTimeout
             /\ \A i \in 1..n : responses[i] = "pending"

\* C8: every reset ends, and ends in success after a successful call, in the
\* error of the attempt that was not a conflict, or, the conflict lasting
\* until the 30 seconds are used up, in the last conflict error; no attempt
\* is made once the 30 seconds are used up.
C8_Terminates ==
    /\ <>(resetErr # <<>>)
    /\ [](resetErr # <<>> => ResetOutcome)
    /\ [][calls' # calls => elapsed < RetryTimeout]_vars

\* C8's case: the conflict outlasted the budget and the reset gave up.
C8_Witness ==
    /\ resetErr = <<"pending">>
    /\ elapsed >= RetryTimeout
    /\ Len(responses) >= 2
    /\ pc = "done"

\* C7: a delete the remote call answers with not-found returns no error, as
\* often as it is repeated, and so does one that succeeds; any other failure
\* of the call is returned as an error.
C7_DeleteIdempotent ==
    calls # <<>> =>
        LET last == calls[Len(calls)]
        IN /\ last.res = "notfound" => result = <<"nil">>
           /\ last.res = "ok" => result = <<"nil">>
           /\ last.res = "error" => result = <<"error deleting">>
           /\ (id \notin groups /\ last.res # "error") => result = <<"nil">>

\* C7's case: the group was deleted, and deleting it twice more found it gone.
C7_Witness ==
    /\ Len(calls) = 3
    /\ calls[1].res = "ok"
    /\ calls[2].res = "notfound"
    /\ calls[3].res = "notfound"
    /\ result = <<"nil">>

=============================================================================
